---- MODULE Spec2Model ----
(***************************************************************************)
(* Model of ExtendedModelResource (extendedmodelresource.py): the CRUD     *)
(* wrappers that strip the nested bookkeeping keys from the lookup kwargs, *)
(* the detail cache, get_detail, the list mutations and dispatch_nested.   *)
(*                                                                         *)
(* Two resources are modelled: a parent resource (number 1) that declares  *)
(* nested fields, and a child resource (number 2) reached standalone or    *)
(* through the parent.  Every value that can sit in a kwargs dictionary is *)
(* a pair <<tag, number>>.  A kwargs dictionary is a function over Keys    *)
(* whose value is Absent for a key the dictionary does not hold.           *)
(***************************************************************************)
EXTENDS Integers, Sequences, FiniteSets, TLC

----------------------------------------------------------------------------
\* Bounds of the model.
NumParents == 3
NumChildren == 2

----------------------------------------------------------------------------
\* Values.
Absent == <<"absent", 0>>
None == <<"None", 0>>
\* A lookup value of the wrong type for the column (int("x")): the ORM raises
\* ValueError on it.
Malformed == <<"malformed", 0>>
\* The bundle dispatch_nested / get_detail build with build_bundle(request=request).
BasicBundle == <<"basic_bundle", 0>>
ApiName == <<"api", 1>>

ParentResource == <<"res", 1>>
ChildResource == <<"res", 2>>
Resources == {ParentResource, ChildResource}

Parents == {<<"parent", i>> : i \in 1..NumParents}
Children == {<<"child", i>> : i \in 1..NumChildren}
Objects == Parents \cup Children

ObjectsOf(res) == IF res = ParentResource THEN Parents ELSE Children

\* The column named by _meta.detail_uri_name.  It is not unique: the last
\* parent shares its value with the one before it, the children's are distinct.
UriOf(o) ==
    IF o[1] = "parent" /\ o[2] = NumParents /\ NumParents > 1
    THEN <<"int", o[2] - 1>>
    ELSE <<"int", o[2]>>

\* The foreign key of a child: children are spread over the first two parents.
ParentOf(o) ==
    IF o[1] = "child" THEN <<"parent", ((o[2] - 1) % 2) + 1>> ELSE None

UriValues == {<<"int", i>> : i \in 1..NumParents} \cup {Malformed}

----------------------------------------------------------------------------
\* Keys of a kwargs dictionary.
detail_uri_name == "pk"

SyntheticKeys ==
    {"parent_resource", "parent_object", "nested_name", "related_manager",
     "child_object"}

StrippedKeys ==
    {"api_name", "resource_name", "related_manager", "child_object",
     "parent_resource", "nested_name", "parent_object"}

Keys == StrippedKeys \cup {detail_uri_name}

\* The columns a lookup keyword may name.
FieldNames == {detail_uri_name}

EmptyKwargs == [k \in Keys |-> Absent]
Has(kwargs, k) == kwargs[k] # Absent
KeysOf(kwargs) == {k \in Keys : kwargs[k] # Absent}
Del(kwargs, k) == [kwargs EXCEPT ![k] = Absent]

\* The kwargs the URL resolver captures for a detail URL of a resource.
DetailUrlKwargs(res, uri) ==
    [EmptyKwargs EXCEPT !["api_name"] = ApiName,
                        !["resource_name"] = res,
                        ![detail_uri_name] = uri]

\* The kwargs the URL resolver captures for a list URL of a resource.
ListUrlKwargs(res) ==
    [EmptyKwargs EXCEPT !["api_name"] = ApiName, !["resource_name"] = res]

----------------------------------------------------------------------------
\* remove_api_resource_names: the override returns a copy with nothing removed.
remove_api_resource_names(url_dict) == [k \in Keys |-> url_dict[k]]

\* The same with parent_object and related_manager missing from the key list.
real_remove_api_resource_names_leaky(url_dict) ==
    [k \in Keys |->
        IF k \in StrippedKeys \ {"parent_object", "related_manager"}
        THEN Absent ELSE url_dict[k]]

\* real_remove_api_resource_names: a copy without the seven stripped keys.
real_remove_api_resource_names(url_dict) ==
    [k \in Keys |-> IF k \in StrippedKeys THEN Absent ELSE url_dict[k]]

----------------------------------------------------------------------------
\* The ORM's QuerySet.filter(**kwargs) over a set of rows.  A keyword that is
\* not a column raises FieldError, a value of the wrong type ValueError.
FilterError(keys, kwargs) ==
    IF \E k \in keys : k \notin FieldNames THEN "FieldError"
    ELSE IF \E k \in keys : kwargs[k] = Malformed THEN "ValueError"
    ELSE "ok"

FilterRows(rows, keys, kwargs) ==
    {o \in rows : \A k \in keys : UriOf(o) = kwargs[k]}

\* The one element of a singleton set: The({e(x) : x \in {v}}) is e with x
\* bound to the value of v.
The(S) == CHOOSE x \in S : TRUE

\* The outcome of a call: the exception raised ("" when it returned), the
\* value returned, the steps taken, the key sets handed to the query layer or
\* to the base implementation, and the detail cache afterwards.
Outcome(exc, val, log, handed, cache) ==
    [exc |-> exc, val |-> val, log |-> log, handed |-> handed, cache |-> cache]

----------------------------------------------------------------------------
\* The cache backend of _meta.cache: NoCache never holds anything.
CacheBackends == {"NoCache", "SimpleCache"}

generate_cache_key(res, kwargs) == <<res, kwargs>>

cache_get(backend, cache, cache_key) ==
    IF backend = "SimpleCache" /\ \E e \in cache : e.key = cache_key
    THEN (CHOOSE e \in cache : e.key = cache_key).val
    ELSE None

cache_set(backend, cache, cache_key, val) ==
    IF backend = "SimpleCache"
    THEN {e \in cache : e.key # cache_key} \cup {[key |-> cache_key, val |-> val]}
    ELSE cache

----------------------------------------------------------------------------
\* A lookup that takes the first row, or None, without counting the rows.
obj_get_first(res, kwargs, authorized, rows, cache) ==
    LET lookup == real_remove_api_resource_names(kwargs)
        keys == KeysOf(lookup)
        found == FilterRows(rows \cap ObjectsOf(res), keys, lookup)
        seen == IF ~authorized \/ FilterError(keys, lookup) # "ok" \/ found = {}
                THEN <<"filter">> ELSE <<"filter", "authorized_read_detail">>
    IN  IF FilterError(keys, lookup) = "FieldError"
        THEN Outcome("FieldError", None, seen, {keys}, cache)
        ELSE IF FilterError(keys, lookup) = "ValueError"
        THEN Outcome("NotFound", None, seen, {keys}, cache)
        ELSE IF ~authorized
        THEN Outcome("Unauthorized", None, seen, {keys}, cache)
        ELSE IF found = {}
        THEN Outcome("", None, seen, {keys}, cache)
        ELSE Outcome("", CHOOSE o \in found : \A d \in found : o[2] <= d[2],
                     seen, {keys}, cache)

\* obj_get: filter the resource's rows by the stripped kwargs, demand exactly
\* one row, run the read-detail authorization on it.
obj_get(res, kwargs, authorized, rows, cache) ==
    LET lookup == real_remove_api_resource_names(kwargs)
        keys == KeysOf(lookup)
        err == FilterError(keys, lookup)
        base_object_list == FilterRows(rows \cap ObjectsOf(res), keys, lookup)
        n == Cardinality(base_object_list)
    IN  IF err = "FieldError"
        THEN Outcome("FieldError", None, <<"filter">>, {keys}, cache)
        ELSE IF err = "ValueError"
        THEN Outcome("NotFound", None, <<"filter">>, {keys}, cache)
        ELSE IF n <= 0
        THEN Outcome("DoesNotExist", None, <<"filter">>, {keys}, cache)
        ELSE IF n > 1
        THEN Outcome("MultipleObjectsReturned", None, <<"filter">>, {keys}, cache)
        ELSE IF ~authorized
        THEN Outcome("Unauthorized", None,
                     <<"filter", "authorized_read_detail">>, {keys}, cache)
        ELSE Outcome("", CHOOSE o \in base_object_list : TRUE,
                     <<"filter", "authorized_read_detail">>, {keys}, cache)

\* cached_obj_get: on a miss the name bundle is rebound to what obj_get
\* returns and that is stored; on a hit the argument bundle is returned as is.
cached_obj_get(res, bundle, kwargs, authorized, rows, backend, cache) ==
    LET cache_key ==
            generate_cache_key(res, real_remove_api_resource_names(kwargs))
        cached_bundle == cache_get(backend, cache, cache_key)
    IN  IF cached_bundle = None
        THEN The({IF got.exc # ""
                  THEN Outcome(got.exc, None, <<"cache_get">> \o got.log,
                               got.handed, cache)
                  ELSE Outcome("", got.val,
                               <<"cache_get">> \o got.log \o <<"cache_set">>,
                               got.handed,
                               cache_set(backend, cache, cache_key, got.val)) :
                  got \in {obj_get(res, kwargs, authorized, rows, cache)}})
        ELSE Outcome("", bundle, <<"cache_get">>, {}, cache)

----------------------------------------------------------------------------
\* A response: the status and the value whose serialized detail is the body
\* (None when the response has no bundle), or the objects of a list body; a
\* status "raise:X" is exception X leaving the handler.
Response(status, obj) == [status |-> status, obj |-> obj, objs |-> {}]
ListResponse(status, objs) == [status |-> status, obj |-> None, objs |-> objs]
Raise(exc) == Response("raise:" \o exc, None)

\* What a handler did: its response, the steps taken, the key sets handed to
\* the query layer or the base implementation, the cache and the rows after.
Handled(response, log, handed, cache, live) ==
    [response |-> response, log |-> log, handed |-> handed, cache |-> cache,
     live |-> live]

\* What a wrapper did: as Outcome, with the rows afterwards.
Effect(exc, val, log, handed, live) ==
    [exc |-> exc, val |-> val, log |-> log, handed |-> handed, live |-> live]

----------------------------------------------------------------------------
\* The inputs of one request besides its URL: whether the detail
\* authorization checks pass, the objects the list authorization lets
\* through, the query string and the object of the request body.
GetParams ==
    {EmptyKwargs,
     [EmptyKwargs EXCEPT ![detail_uri_name] = <<"int", 1>>,
                         !["parent_resource"] = ParentResource]}

\* build_filters keeps the filters that name a column of the resource.
build_filters(filters) ==
    [k \in Keys |-> IF k \in FieldNames THEN filters[k] ELSE Absent]

\* dict.update
Update(filters, kwargs) ==
    [k \in Keys |-> IF Has(kwargs, k) THEN kwargs[k] ELSE filters[k]]

\* related_manager.core_filters: the rows whose foreign key is the parent the
\* manager was taken from.
core_filters(manager) == <<"parent", manager[2]>>

\* The list lookup without the related manager's core filters.
obj_get_list_unrelated(res, rq, kwargs, live) ==
    LET filters == Update(rq.GET, real_remove_api_resource_names(kwargs))
        applicable_filters == build_filters(filters)
        keys == KeysOf(applicable_filters)
        err == FilterError(keys, applicable_filters)
        base_object_list ==
            FilterRows(live \cap ObjectsOf(res), keys, applicable_filters)
    IN  IF err # "ok"
        THEN Effect("BadRequest", None, <<"apply_filters">>, {keys}, live)
        ELSE Effect("", base_object_list \cap rq.allowed,
                    <<"apply_filters", "authorized_read_list">>, {keys}, live)

\* obj_get_list: the query string updated with the stripped kwargs, filtered,
\* narrowed by the related manager's core filters, then authorized.
obj_get_list(res, rq, kwargs, live) ==
    LET filters == Update(rq.GET, real_remove_api_resource_names(kwargs))
        applicable_filters == build_filters(filters)
        keys == KeysOf(applicable_filters)
        err == FilterError(keys, applicable_filters)
        applied == FilterRows(live \cap ObjectsOf(res), keys, applicable_filters)
        base_object_list ==
            IF Has(kwargs, "related_manager")
            THEN {o \in applied :
                    ParentOf(o) = core_filters(kwargs["related_manager"])}
            ELSE applied
        filter_log ==
            IF Has(kwargs, "related_manager")
            THEN <<"apply_filters", "core_filters">>
            ELSE <<"apply_filters">>
        filter_keys ==
            IF Has(kwargs, "related_manager") THEN {keys, {"parent"}} ELSE {keys}
    IN  IF err # "ok"
        THEN Effect("BadRequest", None, <<"apply_filters">>, {keys}, live)
        ELSE Effect("", base_object_list \cap rq.allowed,
                    filter_log \o <<"authorized_read_list">>, filter_keys, live)

----------------------------------------------------------------------------
\* The base implementations the wrappers delegate to, by their effect on the
\* rows.  Each looks objects up through this class's obj_get / obj_get_list.

\* Deleting a parent deletes the children that point to it.
Cascade(objs) == objs \cup {c \in Children : ParentOf(c) \in objs}

super_obj_create(res, rq, kwargs, live) ==
    IF ~rq.authorized
    THEN Effect("Unauthorized", None, <<"super.obj_create">>,
                {KeysOf(kwargs)}, live)
    ELSE Effect("", rq.payload, <<"super.obj_create", "save">>,
                {KeysOf(kwargs)}, live \cup {rq.payload})

super_obj_update(res, rq, kwargs, live) ==
    The({IF got.exc = "DoesNotExist"
         THEN Effect("NotFound", None, <<"super.obj_update">> \o got.log,
                     {KeysOf(kwargs)} \cup got.handed, live)
         ELSE IF got.exc # ""
         THEN Effect(got.exc, None, <<"super.obj_update">> \o got.log,
                     {KeysOf(kwargs)} \cup got.handed, live)
         ELSE Effect("", got.val, <<"super.obj_update">> \o got.log \o <<"save">>,
                     {KeysOf(kwargs)} \cup got.handed, live) :
         got \in {obj_get(res, kwargs, rq.authorized, live, {})}})

super_obj_delete(res, rq, kwargs, live) ==
    The({IF got.exc = "DoesNotExist"
         THEN Effect("NotFound", None, <<"super.obj_delete">> \o got.log,
                     {KeysOf(kwargs)} \cup got.handed, live)
         ELSE IF got.exc # ""
         THEN Effect(got.exc, None, <<"super.obj_delete">> \o got.log,
                     {KeysOf(kwargs)} \cup got.handed, live)
         ELSE Effect("", None, <<"super.obj_delete">> \o got.log \o <<"delete">>,
                     {KeysOf(kwargs)} \cup got.handed,
                     live \ Cascade({got.val})) :
         got \in {obj_get(res, kwargs, rq.authorized, live, {})}})

super_obj_delete_list(res, rq, kwargs, live, name) ==
    The({IF got.exc # ""
         THEN Effect(got.exc, None, <<name>> \o got.log,
                     {KeysOf(kwargs)} \cup got.handed, live)
         ELSE Effect("", None, <<name>> \o got.log \o <<"delete">>,
                     {KeysOf(kwargs)} \cup got.handed,
                     live \ Cascade(got.val)) :
         got \in {obj_get_list(res, rq, kwargs, live)}})

----------------------------------------------------------------------------
\* The CRUD wrappers: strip the kwargs, then the base implementation.
obj_create(res, rq, kwargs, live) ==
    super_obj_create(res, rq, real_remove_api_resource_names(kwargs), live)

obj_update(res, rq, kwargs, live) ==
    super_obj_update(res, rq, real_remove_api_resource_names(kwargs), live)

obj_delete_list(res, rq, kwargs, live) ==
    super_obj_delete_list(res, rq, real_remove_api_resource_names(kwargs), live,
                          "super.obj_delete_list")

obj_delete_list_for_update(res, rq, kwargs, live) ==
    super_obj_delete_list(res, rq, real_remove_api_resource_names(kwargs), live,
                          "super.obj_delete_list_for_update")

obj_delete(res, rq, kwargs, live) ==
    super_obj_delete(res, rq, real_remove_api_resource_names(kwargs), live)
----------------------------------------------------------------------------
\* The detail read that looks the object up whatever the kwargs hold.
get_detail_lookup(res, rq, kwargs, live, backend, cache) ==
    The({IF got.exc \in {"AttributeError", "DoesNotExist"}
         THEN Handled(Response("HttpNotFound", None), got.log, got.handed,
                      got.cache, live)
         ELSE IF got.exc = "MultipleObjectsReturned"
         THEN Handled(Response("HttpMultipleChoices", None), got.log,
                      got.handed, got.cache, live)
         ELSE IF got.exc # ""
         THEN Handled(Raise(got.exc), got.log, got.handed, got.cache, live)
         ELSE Handled(Response("200", got.val),
                      got.log \o <<"full_dehydrate">>, got.handed,
                      got.cache, live) :
         got \in {cached_obj_get(res, BasicBundle,
                                 remove_api_resource_names(
                                     Del(kwargs, "child_object")),
                                 rq.authorized, live, backend, cache)}})

\* get_detail: the child object handed over by dispatch_nested, else a cached
\* lookup; then the bundle of that value is dehydrated and sent.
get_detail(res, rq, kwargs, live, backend, cache) ==
    IF Has(kwargs, "child_object")
    THEN IF kwargs["child_object"] = None
         THEN Handled(Response("HttpNotFound", None), <<>>, {}, cache, live)
         ELSE Handled(Response("200", kwargs["child_object"]),
                      <<"full_dehydrate">>, {}, cache, live)
    ELSE The({IF got.exc \in {"AttributeError", "DoesNotExist"}
              THEN Handled(Response("HttpNotFound", None), got.log, got.handed,
                           got.cache, live)
              ELSE IF got.exc = "MultipleObjectsReturned"
              THEN Handled(Response("HttpMultipleChoices", None), got.log,
                           got.handed, got.cache, live)
              ELSE IF got.exc # ""
              THEN Handled(Raise(got.exc), got.log, got.handed, got.cache, live)
              ELSE Handled(Response("200", got.val),
                           got.log \o <<"full_dehydrate">>, got.handed,
                           got.cache, live) :
              got \in {cached_obj_get(res, BasicBundle,
                                      remove_api_resource_names(kwargs),
                                      rq.authorized, live, backend, cache)}})

----------------------------------------------------------------------------
\* The base handlers that reach the wrappers.
get_list(res, rq, kwargs, live, cache) ==
    The({IF got.exc # ""
         THEN Handled(Raise(got.exc), got.log, got.handed, cache, live)
         ELSE Handled(ListResponse("200", got.val), got.log, got.handed, cache,
                      live) :
         got \in {obj_get_list(res, rq, remove_api_resource_names(kwargs),
                               live)}})

delete_list(res, rq, kwargs, live, cache) ==
    The({IF did.exc # ""
         THEN Handled(Raise(did.exc), did.log, did.handed, cache, live)
         ELSE Handled(Response("HttpNoContent", None), did.log, did.handed,
                      cache, did.live) :
         did \in {obj_delete_list(res, rq, remove_api_resource_names(kwargs),
                                  live)}})

delete_detail(res, rq, kwargs, live, cache) ==
    The({IF did.exc = "NotFound"
         THEN Handled(Response("HttpNotFound", None), did.log, did.handed,
                      cache, live)
         ELSE IF did.exc # ""
         THEN Handled(Raise(did.exc), did.log, did.handed, cache, live)
         ELSE Handled(Response("HttpNoContent", None), did.log, did.handed,
                      cache, did.live) :
         did \in {obj_delete(res, rq, remove_api_resource_names(kwargs), live)}})

put_detail(res, rq, kwargs, live, cache) ==
    The({IF upd.exc \in {"NotFound", "MultipleObjectsReturned"}
         THEN The({IF crt.exc # ""
                   THEN Handled(Raise(crt.exc), upd.log \o crt.log,
                                upd.handed \cup crt.handed, cache, live)
                   ELSE Handled(Response("HttpCreated", crt.val),
                                upd.log \o crt.log, upd.handed \cup crt.handed,
                                cache, crt.live) :
                   crt \in {obj_create(res, rq,
                                       remove_api_resource_names(kwargs),
                                       live)}})
         ELSE IF upd.exc # ""
         THEN Handled(Raise(upd.exc), upd.log, upd.handed, cache, live)
         ELSE Handled(Response("HttpNoContent", upd.val), upd.log, upd.handed,
                      cache, upd.live) :
         upd \in {obj_update(res, rq, remove_api_resource_names(kwargs), live)}})

super_post_list(res, rq, kwargs, live, cache) ==
    The({IF crt.exc # ""
         THEN Handled(Raise(crt.exc), <<"super.post_list">> \o crt.log,
                      crt.handed, cache, live)
         ELSE Handled(Response("HttpCreated", crt.val),
                      <<"super.post_list">> \o crt.log, crt.handed, cache,
                      crt.live) :
         crt \in {obj_create(res, rq, remove_api_resource_names(kwargs), live)}})

super_put_list(res, rq, kwargs, live, cache) ==
    The({IF del.exc # ""
         THEN Handled(Raise(del.exc), <<"super.put_list">> \o del.log,
                      del.handed, cache, live)
         ELSE The({IF crt.exc # ""
                   THEN Handled(Raise(crt.exc),
                                <<"super.put_list">> \o del.log \o crt.log,
                                del.handed \cup crt.handed, cache, del.live)
                   ELSE Handled(Response("HttpNoContent", None),
                                <<"super.put_list">> \o del.log \o crt.log,
                                del.handed \cup crt.handed, cache, crt.live) :
                   crt \in {obj_create(res, rq,
                                       remove_api_resource_names(kwargs),
                                       del.live)}}) :
         del \in {obj_delete_list_for_update(
                      res, rq, remove_api_resource_names(kwargs), live)}})

super_patch_list(res, rq, kwargs, live, cache) ==
    The({IF crt.exc # ""
         THEN Handled(Raise(crt.exc), <<"super.patch_list">> \o crt.log,
                      crt.handed, cache, live)
         ELSE Handled(Response("HttpAccepted", None),
                      <<"super.patch_list">> \o crt.log, crt.handed, cache,
                      crt.live) :
         crt \in {obj_create(res, rq, EmptyKwargs, live)}})

----------------------------------------------------------------------------
\* The list mutations: refused under a parent, the base handler otherwise.
NotImplemented(cache, live) ==
    Handled(Raise("NotImplementedError"), <<>>, {}, cache, live)

\* post_list without the test for a parent.
post_list_unguarded(res, rq, kwargs, live, cache) ==
    super_post_list(res, rq, kwargs, live, cache)

post_list(res, rq, kwargs, live, cache) ==
    IF Has(kwargs, "parent_resource")
    THEN NotImplemented(cache, live)
    ELSE super_post_list(res, rq, kwargs, live, cache)

put_list(res, rq, kwargs, live, cache) ==
    IF Has(kwargs, "parent_resource")
    THEN NotImplemented(cache, live)
    ELSE super_put_list(res, rq, kwargs, live, cache)

patch_list(res, rq, kwargs, live, cache) ==
    IF Has(kwargs, "parent_resource")
    THEN NotImplemented(cache, live)
    ELSE super_patch_list(res, rq, kwargs, live, cache)

patch_detail(res, rq, kwargs, live, backend, cache) ==
    The({IF got.exc = "DoesNotExist"
         THEN Handled(Response("HttpNotFound", None), got.log, got.handed,
                      got.cache, live)
         ELSE IF got.exc = "MultipleObjectsReturned"
         THEN Handled(Response("HttpMultipleChoices", None), got.log,
                      got.handed, got.cache, live)
         ELSE IF got.exc # ""
         THEN Handled(Raise(got.exc), got.log, got.handed, got.cache, live)
         ELSE The({IF upd.exc # ""
                   THEN Handled(Raise(upd.exc), got.log \o upd.log,
                                got.handed \cup upd.handed, got.cache, live)
                   ELSE Handled(Response("HttpAccepted", upd.val),
                                got.log \o upd.log, got.handed \cup upd.handed,
                                got.cache, upd.live) :
                   upd \in {obj_update(res, rq,
                                       remove_api_resource_names(kwargs),
                                       live)}}) :
         got \in {cached_obj_get(res, BasicBundle,
                                 remove_api_resource_names(kwargs),
                                 rq.authorized, live, backend, cache)}})

\* Resource.dispatch of the base class: the handler for the request type and
\* the HTTP method.
Methods == {"GET", "POST", "PUT", "PATCH", "DELETE"}

dispatch(res, request_type, rq, kwargs, live, backend, cache) ==
    IF request_type = "list"
    THEN CASE rq.method = "GET" -> get_list(res, rq, kwargs, live, cache)
           [] rq.method = "POST" -> post_list(res, rq, kwargs, live, cache)
           [] rq.method = "PUT" -> put_list(res, rq, kwargs, live, cache)
           [] rq.method = "PATCH" -> patch_list(res, rq, kwargs, live, cache)
           [] OTHER -> delete_list(res, rq, kwargs, live, cache)
    ELSE CASE rq.method = "GET" ->
                get_detail(res, rq, kwargs, live, backend, cache)
           [] rq.method = "POST" ->
                Handled(Response("HttpNotImplemented", None), <<>>, {}, cache,
                        live)
           [] rq.method = "PUT" -> put_detail(res, rq, kwargs, live, cache)
           [] rq.method = "PATCH" ->
                patch_detail(res, rq, kwargs, live, backend, cache)
           [] OTHER -> delete_detail(res, rq, kwargs, live, cache)

----------------------------------------------------------------------------
\* The nested fields the parent resource declares (_nested), by the attribute
\* each names: 1 a related manager, 2 a single related object, 3 a name the
\* model does not have, 4 a callable, 5 no attribute.
NestedNames == 1..5

AttributeKind(nested_name) ==
    IF nested_name \in {1, 2, 3} THEN "str"
    ELSE IF nested_name = 4 THEN "callable"
    ELSE "none"

\* The rows of the parent's related collection.
ChildrenOf(parent, live) == {c \in live \cap Children : ParentOf(c) = parent}

\* What the relation value is, and what reading it raised.
Traversed(exc, manager) == [exc |-> exc, manager |-> manager]

\* getattr(obj, name, None): a Bundle has none of the model's attributes.  The
\* single related object of a parent is the child with the parent's number,
\* when it is still there; reading it otherwise raises ObjectDoesNotExist.
GetAttr(obj, nested_name, live) ==
    IF obj \notin Parents \/ nested_name = 3 THEN Traversed("", None)
    ELSE IF nested_name = 1 THEN Traversed("", <<"manager", obj[2]>>)
    ELSE IF <<"child", obj[2]>> \in live
    THEN Traversed("", <<"child", obj[2]>>)
    ELSE Traversed("ObjectDoesNotExist", None)

\* The callable attribute: the parent's lowest-numbered child, reading the
\* model's attributes of its argument.
CallAttribute(obj, live) ==
    IF obj \notin Parents THEN Traversed("AttributeError", None)
    ELSE IF ChildrenOf(obj, live) = {}
    THEN Traversed("ObjectDoesNotExist", None)
    ELSE Traversed("", CHOOSE c \in ChildrenOf(obj, live) :
                           \A d \in ChildrenOf(obj, live) : c[2] <= d[2])

\* '{0:r}'.format(obj): the format code r does not exist; object.__format__
\* raises ValueError (Python 2) or TypeError (Python 3) before ApiFieldError
\* is built.
FormatError(py3) == IF py3 THEN "TypeError" ELSE "ValueError"

HasAll(manager) == manager[1] = "manager"

\* What dispatch_nested did: the handler's record and the redispatch made
\* (its request type, its kwargs, and the detail cache as it was when the
\* child's dispatch was called).
NoChild == [type |-> "none", kwargs |-> EmptyKwargs, cache |-> {}]
Dispatched(handled, child) ==
    [response |-> handled.response, log |-> handled.log,
     handed |-> handled.handed, cache |-> handled.cache,
     live |-> handled.live, child |-> child]

\* The relation value of the nested field on obj, and what reading it raised.
Traverse(nested_name, obj, py3, live) ==
    IF AttributeKind(nested_name) = "str"
    THEN GetAttr(obj, nested_name, live)
    ELSE IF AttributeKind(nested_name) = "callable"
    THEN CallAttribute(obj, live)
    ELSE Traversed(FormatError(py3), None)

\* The type of the redispatch: detail unless the relation value exposes all.
RequestType(manager) ==
    IF manager = None \/ ~HasAll(manager) THEN "detail" ELSE "list"

\* The kwargs of the redispatch.
ChildKwargs(popped, nested_name, obj, manager) ==
    IF RequestType(manager) = "detail"
    THEN [popped EXCEPT !["nested_name"] = nested_name,
                        !["parent_resource"] = ParentResource,
                        !["parent_object"] = obj,
                        !["child_object"] = manager]
    ELSE Del([popped EXCEPT !["nested_name"] = nested_name,
                            !["parent_resource"] = ParentResource,
                            !["parent_object"] = obj,
                            !["related_manager"] = manager],
             detail_uri_name)

\* dispatch_nested: the two gates, the cached parent lookup, the relation
\* traversal, the kwargs of the redispatch and the redispatch itself.
dispatch_nested(rq, kwargs, live, backend, cache) ==
    IF rq.gate = "unauthenticated"
    THEN Dispatched(Handled(Raise("ImmediateHttpResponse"),
                            <<"is_authenticated">>, {}, cache, live), NoChild)
    ELSE IF rq.gate = "throttled"
    THEN Dispatched(Handled(Raise("ImmediateHttpResponse"),
                            <<"is_authenticated", "throttle_check">>, {},
                            cache, live), NoChild)
    ELSE
    The({
    LET gates == <<"is_authenticated", "throttle_check">>
    IN  IF got.exc = "DoesNotExist"
        THEN Dispatched(Handled(Response("HttpNotFound", None),
                                gates \o got.log, got.handed, got.cache, live),
                        NoChild)
        ELSE IF got.exc = "MultipleObjectsReturned"
        THEN Dispatched(Handled(Response("HttpMultipleChoices", None),
                                gates \o got.log, got.handed, got.cache, live),
                        NoChild)
        ELSE IF got.exc # ""
        THEN Dispatched(Handled(Raise(got.exc), gates \o got.log, got.handed,
                                got.cache, live), NoChild)
        ELSE The({
             IF read.exc \notin {"", "ObjectDoesNotExist"}
             THEN Dispatched(Handled(Raise(read.exc),
                                     gates \o got.log \o <<"traverse">>,
                                     got.handed, got.cache, live), NoChild)
             ELSE The({
                  The({Dispatched(
                           Handled(done.response,
                                   gates \o got.log \o <<"traverse", "dispatch">>
                                         \o done.log,
                                   got.handed \cup done.handed, done.cache,
                                   done.live),
                           [type |-> RequestType(read.manager),
                            kwargs |-> child_kwargs, cache |-> got.cache]) :
                       done \in {dispatch(ChildResource,
                                          RequestType(read.manager), rq,
                                          child_kwargs, live, backend,
                                          got.cache)}}) :
                  child_kwargs \in {ChildKwargs(Del(kwargs, "nested_name"),
                                                kwargs["nested_name"], got.val,
                                                read.manager)}}) :
             read \in {Traverse(kwargs["nested_name"][2], got.val, rq.py3,
                                live)}}) :
    got \in {cached_obj_get(ParentResource, BasicBundle,
                            remove_api_resource_names(Del(kwargs, "nested_name")),
                            rq.authorized, live, backend, cache)}})

----------------------------------------------------------------------------
\* The authorization selector.  An object list is a set of objects; the
\* resource's own limits and the parent's hook each let a subset through.
OwnLimit == Objects \ {<<"child", 1>>}

apply_authorization_limits(object_list) == object_list \cap OwnLimit

\* The hook apply_limits_nested_<name>(request, parent_object, object_list) of
\* the parent's authorization object: the objects that belong to the parent.
apply_limits_nested(parent_object, object_list) ==
    {o \in object_list : ParentOf(o) = parent_object}

\* hooks: the nested names for which the parent's authorization object
\* defines apply_limits_nested_<name>.
apply_nested_authorization_limits(object_list, hooks, parent_object, name) ==
    IF name \in hooks
    THEN apply_limits_nested(parent_object, object_list)
    ELSE object_list

\* A selector that falls back to the resource's own limits when the parent's
\* authorization defines no hook.
apply_proper_authorization_limits_fallback(object_list, hooks, kwargs) ==
    IF kwargs["parent_resource"] \in {Absent, None}
       \/ kwargs["nested_name"] \notin hooks
    THEN apply_authorization_limits(object_list)
    ELSE apply_limits_nested(kwargs["parent_object"], object_list)

apply_proper_authorization_limits(object_list, hooks, kwargs) ==
    IF kwargs["parent_resource"] \in {Absent, None}
    THEN apply_authorization_limits(object_list)
    ELSE apply_nested_authorization_limits(
             object_list, hooks,
             IF Has(kwargs, "parent_object")
             THEN kwargs["parent_object"] ELSE None,
             IF Has(kwargs, "nested_name") THEN kwargs["nested_name"] ELSE None)

----------------------------------------------------------------------------
\* The requests.
Gates == {"ok", "unauthenticated", "throttled"}
AllowedSets == {Objects, Objects \ {<<"child", 1>>, <<"parent", 1>>}}

DefaultRequest ==
    [gate |-> "ok", authorized |-> TRUE, allowed |-> Objects,
     GET |-> EmptyKwargs, payload |-> <<"child", 1>>, method |-> "GET",
     py3 |-> FALSE]

\* The inputs a handler reads.
UsedBy(request_type, method) ==
    IF request_type = "list"
    THEN CASE method = "GET" -> {"GET", "allowed"}
           [] method = "POST" -> {"authorized", "payload"}
           [] method = "PUT" -> {"allowed", "authorized", "payload"}
           [] method = "PATCH" -> {"authorized", "payload"}
           [] OTHER -> {"GET", "allowed"}
    ELSE CASE method = "GET" -> {"authorized"}
           [] method = "POST" -> {}
           [] method = "PUT" -> {"authorized", "payload"}
           [] method = "PATCH" -> {"authorized"}
           [] OTHER -> {"authorized"}

RequestFields == {"gate", "authorized", "allowed", "GET", "payload", "py3"}

\* The object a request body describes: the first of the resource.
Payloads(r) == {o \in ObjectsOf(r) : o[2] = 1}

\* A request is canonical when every input its handler does not read has its
\* default value: requests that differ in unread inputs are the same request.
AllRequests(r) ==
    [gate : Gates, authorized : BOOLEAN, allowed : AllowedSets,
     GET : GetParams, payload : Payloads(r), method : Methods, py3 : BOOLEAN]

Canonical(q, r, used) ==
    \A f \in RequestFields \ ({"payload"} \cup used) : q[f] = DefaultRequest[f]

StandaloneRequests ==
    [r \in Resources, request_type \in {"list", "detail"} |->
        {q \in AllRequests(r) : Canonical(q, r, UsedBy(request_type, q.method))}]

\* A nested request reads the gates, the parent's authorization and what the
\* child handler reads; only nested field 1 leads to the child's list.
NestedRequests ==
    [nested_name \in NestedNames |->
        {q \in AllRequests(ChildResource) :
            /\ q.gate # "ok" =>
                  q.method = "GET" /\ Canonical(q, ChildResource, {"gate"})
            /\ q.gate = "ok" =>
                  Canonical(q, ChildResource,
                         {"gate", "authorized"}
                         \cup UsedBy("detail", q.method)
                         \cup (IF nested_name = 1
                               THEN UsedBy("list", q.method) ELSE {})
                         \cup (IF nested_name = 5 THEN {"py3"} ELSE {}))}]

NestedUrlKwargs(uri, nested_name) ==
    [DetailUrlKwargs(ParentResource, uri)
        EXCEPT !["nested_name"] = <<"nested", nested_name>>]

HandlerName(request_type, method) ==
    IF request_type = "list"
    THEN CASE method = "GET" -> "get_list"
           [] method = "POST" -> "post_list"
           [] method = "PUT" -> "put_list"
           [] method = "PATCH" -> "patch_list"
           [] OTHER -> "delete_list"
    ELSE CASE method = "GET" -> "get_detail"
           [] method = "POST" -> "post_detail"
           [] method = "PUT" -> "put_detail"
           [] method = "PATCH" -> "patch_detail"
           [] OTHER -> "delete_detail"

----------------------------------------------------------------------------
\* State: the configured cache backend, the rows of the two tables, the
\* detail cache, and the record of the last request: the entry point, its
\* resource, inputs and kwargs, the rows and cache it started from, its
\* response, its steps, the key sets it handed down, the redispatch it made,
\* and the object list of the authorization selector.
VARIABLES backend, live, cache, op, res, rq, kwargs, pre, response, log,
          handed, child, limited

vars == <<backend, live, cache, op, res, rq, kwargs, pre, response, log,
          handed, child, limited>>

NoLimits == [object_list |-> {}, hooks |-> {}, result |-> {}]

Init ==
    /\ backend \in CacheBackends
    /\ live = Objects
    /\ cache = {}
    /\ op = "idle"
    /\ res = ParentResource
    /\ rq = DefaultRequest
    /\ kwargs = EmptyKwargs
    /\ pre = [live |-> Objects, cache |-> {}]
    /\ response = Response("none", None)
    /\ log = <<>>
    /\ handed = {}
    /\ child = NoChild
    /\ limited = NoLimits

\* A request for a list or detail URL of a resource.
Standalone ==
    /\ op = "idle"
    /\ \E r \in Resources, request_type \in {"list", "detail"}, uri \in UriValues :
      \E q \in StandaloneRequests[r, request_type] :
      \E kw \in {IF request_type = "list" THEN ListUrlKwargs(r)
                  ELSE DetailUrlKwargs(r, uri)} :
        \E done \in {dispatch(r, request_type, q, kw, live, backend, cache)} :
            /\ request_type = "list" => uri = Malformed
            /\ op' = HandlerName(request_type, q.method)
            /\ res' = r
            /\ rq' = q
            /\ kwargs' = kw
            /\ pre' = [live |-> live, cache |-> cache]
            /\ response' = done.response
            /\ log' = done.log
            /\ handed' = done.handed
            /\ cache' = done.cache
            /\ live' = done.live
            /\ child' = NoChild
            /\ limited' = NoLimits
            /\ UNCHANGED backend

\* A request for the URL of a nested field under a parent's detail URL.
DispatchNested ==
    /\ op = "idle"
    /\ \E uri \in UriValues, nested_name \in NestedNames :
      \E q \in NestedRequests[nested_name] :
      \E kw \in {NestedUrlKwargs(uri, nested_name)} :
        \E done \in {dispatch_nested(q, kw, live, backend, cache)} :
            /\ op' = "dispatch_nested"
            /\ res' = ParentResource
            /\ rq' = q
            /\ kwargs' = kw
            /\ pre' = [live |-> live, cache |-> cache]
            /\ response' = done.response
            /\ log' = done.log
            /\ handed' = done.handed
            /\ cache' = done.cache
            /\ live' = done.live
            /\ child' = done.child
            /\ limited' = NoLimits
            /\ UNCHANGED backend

\* A call of the authorization selector on an object list.
LimitKwargs ==
    {EmptyKwargs, [EmptyKwargs EXCEPT !["parent_resource"] = None]}
    \cup {[EmptyKwargs EXCEPT !["parent_resource"] = ParentResource,
                              !["parent_object"] = p,
                              !["nested_name"] = <<"nested", n>>] :
            p \in Parents, n \in {1, 2}}

ApplyLimits ==
    /\ op = "idle"
    /\ \E object_list \in SUBSET Children, hooks \in SUBSET {<<"nested", 1>>},
       kw \in LimitKwargs :
        /\ op' = "apply_proper_authorization_limits"
        /\ res' = ChildResource
        /\ rq' = DefaultRequest
        /\ kwargs' = kw
        /\ pre' = [live |-> live, cache |-> cache]
        /\ response' = Response("none", None)
        /\ log' = <<>>
        /\ handed' = {}
        /\ child' = NoChild
        /\ limited' = [object_list |-> object_list, hooks |-> hooks,
                       result |-> apply_proper_authorization_limits(
                                      object_list, hooks, kw)]
        /\ UNCHANGED <<backend, live, cache>>

\* A call of cached_obj_get with the kwargs of a detail URL.
CachedObjGet ==
    /\ op = "idle"
    /\ \E r \in Resources, uri \in UriValues, authorized \in BOOLEAN :
      \E kw \in {DetailUrlKwargs(r, uri)} :
        \E got \in {cached_obj_get(r, BasicBundle, kw, authorized, live,
                                   backend, cache)} :
            /\ op' = "cached_obj_get"
            /\ res' = r
            /\ rq' = [DefaultRequest EXCEPT !.authorized = authorized]
            /\ kwargs' = kw
            /\ pre' = [live |-> live, cache |-> cache]
            /\ response' = IF got.exc = "" THEN Response("returned", got.val)
                           ELSE Raise(got.exc)
            /\ log' = got.log
            /\ handed' = got.handed
            /\ cache' = got.cache
            /\ child' = NoChild
            /\ limited' = NoLimits
            /\ UNCHANGED <<backend, live>>

\* The response is sent and the request's bundle and kwargs are discarded.
Finish ==
    /\ op # "idle"
    /\ op' = "idle"
    /\ res' = ParentResource
    /\ rq' = DefaultRequest
    /\ kwargs' = EmptyKwargs
    /\ pre' = [live |-> live, cache |-> cache]
    /\ response' = Response("none", None)
    /\ log' = <<>>
    /\ handed' = {}
    /\ child' = NoChild
    /\ limited' = NoLimits
    /\ UNCHANGED <<backend, live, cache>>

Next == Standalone \/ DispatchNested \/ ApplyLimits \/ CachedObjGet \/ Finish

Spec == Init /\ [][Next]_vars

----------------------------------------------------------------------------
\* Properties.

Contains(s, e) == \E i \in 1..Len(s) : s[i] = e

\* The rows of the request's resource that carry the identifier of its URL,
\* as they were when the request started.
Matching == {o \in pre.live \cap ObjectsOf(res) : UriOf(o) = kwargs[detail_uri_name]}

WellFormed == Has(kwargs, detail_uri_name) /\ kwargs[detail_uri_name] # Malformed

NestedRedispatched == op = "dispatch_nested" /\ child.type # "none"

\* C1: whatever the entry point, no key set handed to a query/filter call or
\* to a base implementation holds one of the five synthetic keys.
C1_NoSyntheticKeyHanded == \A ks \in handed : ks \cap SyntheticKeys = {}

\* A nested request whose child kwargs carry synthetic keys reached a base
\* implementation and a query.
C1_Witness ==
    /\ NestedRedispatched
    /\ rq.method \in {"PUT", "DELETE"}
    /\ KeysOf(child.kwargs) \cap SyntheticKeys # {}
    /\ Cardinality(handed) >= 1
    /\ \E i \in 1..Len(log) : log[i] \in {"super.obj_update", "super.obj_delete",
                                         "super.obj_delete_list"}

\* C2: a detail read without a child object, authorized and with a
\* well-formed identifier, answers the 200 detail of the one matching object,
\* not-found when none matches, multiple-choices when several match.
C2_DetailReadOutcome ==
    (op = "get_detail" /\ ~Has(kwargs, "child_object") /\ WellFormed
        /\ rq.authorized) =>
        /\ Cardinality(Matching) = 1 =>
              response = Response("200", CHOOSE o \in Matching : TRUE)
        /\ Cardinality(Matching) = 0 => response = Response("HttpNotFound", None)
        /\ Cardinality(Matching) > 1 =>
              response = Response("HttpMultipleChoices", None)

\* The parent row a nested request names, when there is exactly one.
TheParent == CHOOSE p \in Matching : TRUE

ListMutations == {"POST", "PUT", "PATCH"}

C4_NestedListMutationRefused ==
    /\ (NestedRedispatched /\ child.type = "list" /\ rq.method \in ListMutations)
          => /\ response = Raise("NotImplementedError")
             /\ live = pre.live
             /\ \A i \in 1..Len(log) :
                   log[i] \notin {"super.post_list", "super.put_list",
                                  "super.patch_list", "super.obj_create",
                                  "super.obj_delete_list_for_update", "save",
                                  "delete"}
    /\ (op \in {"post_list", "put_list", "patch_list"}
            /\ ~Has(kwargs, "parent_resource"))
          => Len(log) >= 1 /\ log[1] = "super." \o op

\* A list mutation was refused under a parent.
C4_Witness ==
    /\ NestedRedispatched /\ child.type = "list" /\ rq.method \in ListMutations
    /\ Has(child.kwargs, "parent_resource")
    /\ response = Raise("NotImplementedError")

\* A list mutation without a parent changed the rows through the base handler.
C4_WitnessStandalone ==
    /\ op \in {"post_list", "put_list", "patch_list"}
    /\ live # pre.live

\* C5 as stated: the hook's result when a parent is present and its
\* authorization defines the hook, the resource's own limits in every other
\* case.
HookDefined ==
    /\ kwargs["parent_resource"] \notin {Absent, None}
    /\ kwargs["nested_name"] \in limited.hooks

C5_FallbackToOwnLimits ==
    op = "apply_proper_authorization_limits" =>
        limited.result =
            IF HookDefined
            THEN {o \in limited.object_list : ParentOf(o) = kwargs["parent_object"]}
            ELSE limited.object_list \cap OwnLimit

\* C5 amended: under a parent whose authorization defines no hook the object
\* list comes back unchanged; the resource's own limits apply only without a
\* parent.
C5_SelectorResult ==
    op = "apply_proper_authorization_limits" =>
        limited.result =
            IF kwargs["parent_resource"] \in {Absent, None}
            THEN limited.object_list \cap OwnLimit
            ELSE IF HookDefined
            THEN {o \in limited.object_list : ParentOf(o) = kwargs["parent_object"]}
            ELSE limited.object_list

\* The selector ran under a parent without a hook on a list its own limits
\* would have cut.
C5_Witness ==
    /\ op = "apply_proper_authorization_limits"
    /\ kwargs["parent_resource"] = ParentResource
    /\ ~HookDefined
    /\ limited.object_list \cap OwnLimit # limited.object_list
    /\ limited.result = limited.object_list

\* C6: cached_obj_get returns, or raises, what obj_get does for the same
\* kwargs, on a miss and on a hit.
C6_CachedEqualsObjGet ==
    op = "cached_obj_get" =>
        LET direct == obj_get(res, kwargs, rq.authorized, pre.live, pre.cache)
        IN  response = IF direct.exc = "" THEN Response("returned", direct.val)
                       ELSE Raise(direct.exc)

\* The nested field a nested request names.
NestedField == kwargs["nested_name"][2]

\* The parent lookup of a nested request ran its query.
ParentQueried ==
    /\ op = "dispatch_nested"
    /\ WellFormed
    /\ Len(log) >= 4
    /\ log[3] = "cache_get"
    /\ log[4] = "filter"

NeverFollowed ==
    /\ child = NoChild
    /\ ~Contains(log, "traverse")
    /\ ~Contains(log, "dispatch")
    /\ live = pre.live

\* C7: when the parent lookup of dispatch_nested matches no row the response
\* is not-found, when it matches several it is multiple-choices; either way
\* the relation is not followed and the child resource is not dispatched to.
C7_ParentLookupFailure ==
    ParentQueried =>
        /\ Cardinality(Matching) = 0 =>
              response = Response("HttpNotFound", None) /\ NeverFollowed
        /\ Cardinality(Matching) > 1 =>
              response = Response("HttpMultipleChoices", None) /\ NeverFollowed

\* A nested request named an identifier that several parents carry.
C7_Witness ==
    /\ ParentQueried
    /\ Cardinality(Matching) > 1
    /\ response = Response("HttpMultipleChoices", None)

\* A nested request named an identifier that no parent carries.
C7_WitnessNone ==
    /\ ParentQueried
    /\ Cardinality(Matching) = 0
    /\ response = Response("HttpNotFound", None)

\* The parent lookup of a nested request found the parent.
ParentFound ==
    /\ ParentQueried
    /\ Cardinality(Matching) = 1
    /\ rq.authorized

\* C8: with the parent found, a nested field whose attribute the parent does
\* not have (field 3) or that declares no attribute (field 5) ends in
\* ApiFieldError, without a redispatch to the child resource.
C8_MissingAttributeFieldError ==
    (ParentFound /\ NestedField \in {3, 5}) =>
        response = Raise("ApiFieldError") /\ child = NoChild

\* C9: a nested request that reaches the child's dispatch went through
\* is_authenticated, throttle_check, the read-detail authorization of the
\* parent, the relation traversal and the dispatch, in that order.
C9_StepOrder ==
    NestedRedispatched =>
        /\ Len(log) >= 5
        /\ log[1] = "is_authenticated"
        /\ log[2] = "throttle_check"
        /\ \E i \in 3..Len(log) : \E j \in (i + 1)..(Len(log) - 1) :
              /\ log[i] = "authorized_read_detail"
              /\ log[j] = "traverse"
              /\ log[j + 1] = "dispatch"
              /\ \A k \in 1..j : log[k] # "dispatch"

\* C10: the redispatch is to the list exactly when the parent's relation
\* value is a manager (field 1); its kwargs carry the nested name, the parent
\* resource, the parent row the URL names, and one of related_manager (list)
\* or child_object (detail); the list kwargs lack the parent's identifier.
C10_RedispatchKwargs ==
    NestedRedispatched =>
        /\ Cardinality(Matching) = 1
        /\ (child.type = "list") <=> (NestedField = 1)
        /\ child.kwargs["nested_name"] = kwargs["nested_name"]
        /\ child.kwargs["parent_resource"] = ParentResource
        /\ child.kwargs["parent_object"] = TheParent
        /\ child.type = "list" =>
              /\ Has(child.kwargs, "related_manager")
              /\ ~Has(child.kwargs, "child_object")
              /\ ~Has(child.kwargs, detail_uri_name)
        /\ child.type = "detail" =>
              /\ Has(child.kwargs, "child_object")
              /\ ~Has(child.kwargs, "related_manager")

\* The steps of a nested request after the child's dispatch was called.
AfterDispatch ==
    LET i == CHOOSE k \in 1..Len(log) : log[k] = "dispatch"
    IN  SubSeq(log, i + 1, Len(log))

NestedDetailRead ==
    NestedRedispatched /\ child.type = "detail" /\ rq.method = "GET"

\* C11: get_detail reached with a child_object key in its kwargs makes no
\* object lookup (no cache read, no query, no cache write: the detail cache
\* and the rows are as they were when it was called); it answers not-found
\* when child_object is None and otherwise the serialized detail of exactly
\* that child object.
C11_ChildObjectDetail ==
    NestedDetailRead =>
        /\ Has(child.kwargs, "child_object")
        /\ \A i \in 1..Len(AfterDispatch) :
              AfterDispatch[i] \notin {"cache_get", "filter", "cache_set",
                                       "authorized_read_detail"}
        /\ cache = child.cache
        /\ live = pre.live
        /\ child.kwargs["child_object"] = None =>
              response = Response("HttpNotFound", None)
        /\ child.kwargs["child_object"] # None =>
              response = Response("200", child.kwargs["child_object"])

\* A nested detail read of a child object, with the parent already cached.
C11_Witness ==
    /\ NestedDetailRead
    /\ child.kwargs["child_object"] \in Children
    /\ child.cache # {}
    /\ response = Response("200", child.kwargs["child_object"])
    /\ AfterDispatch = <<"full_dehydrate">>

\* A nested detail read with no child object.
C11_WitnessNone ==
    /\ NestedDetailRead
    /\ child.kwargs["child_object"] = None
    /\ response = Response("HttpNotFound", None)

\* The rows a request deleted.
Deleted == pre.live \ live

\* C12: a DELETE that dispatch_nested redispatches to the child's list
\* deletes only rows of the parent object's related collection; no child of
\* another parent is deleted.
C12_NestedDeleteListRestricted ==
    (NestedRedispatched /\ child.type = "list" /\ rq.method = "DELETE") =>
        \A o \in Deleted :
            /\ o \in Children
            /\ ParentOf(o) = child.kwargs["parent_object"]

====
